---- MODULE Spec2Model ----
(***************************************************************************)
(* Model of the PubSub store of src/pubsub.ts: a map from key to Entry     *)
(* (m), a registry of global subscribers (s), and the operations Get, Put, *)
(* Delete, Sub, Unsub and Close.                                           *)
(*                                                                         *)
(* Strings are sequences of tokens, so that the identifier minted by a     *)
(* registry (prefix + "_" + counter) can be split again at its first "_",  *)
(* as Unsub does.  A token is a run of characters without "_".             *)
(***************************************************************************)
EXTENDS Bags, FiniteSets, Integers, Sequences, TLC

\* Number of listeners the caller creates over the life of the store.
MaxSubs == 3

\* Number of calls on the store that listeners make from inside their
\* callbacks during one Put, Delete or Close.
MaxInner == 2

\* Store keys the caller uses: a plain key, the key that equals the prefix
\* of the global registry, the wildcard, and a property name every
\* JavaScript object inherits from Object.prototype.
Star == <<"*">>
GlobalPrefix == <<"global">>
KeyA == <<"a">>
ProtoKey == <<"toString">>
Keys == {KeyA, GlobalPrefix, Star, ProtoKey}

\* A string with two underscores, used as the prefix of an identifier.
KeyAB == <<"a", "_", "b">>

\* Object.prototype members seen through this.m[key] on the object literal
\* that newEntryMap returns.
ProtoKeys == {ProtoKey}

Vals == {"v1", "v2"}
Null == "null"

\* Listeners are closures; the caller makes a fresh one for every Sub.
Fns == 1..MaxSubs
NoFn == 0

\* Results of an operation, as token strings.
RetTrue == <<"true">>
RetFalse == <<"false">>
RetNull == <<"null">>
RetVoid == <<"undefined">>
TypeError == <<"TypeError">>

VARIABLES
  m,       \* PubSub.m: key -> Entry
  s,       \* PubSub.s: the global Subber
  nfn,     \* number of listeners the caller has created
  op,      \* the last operation called and its arguments
  ret,     \* what it returned (or TypeError when it raised)
  calls,   \* bag of the listener invocations it made
  err,     \* what it wrote to console.error ("" when nothing)
  issued,  \* history: the identifiers Sub has returned, and whether the
           \* subscription is still live
  run,     \* the Put, Delete or Close whose listeners are being invoked
  inner    \* the calls its listeners made on the store from their callbacks

vars == <<m, s, nfn, op, ret, calls, err, issued, run, inner>>

----------------------------------------------------------------------------
\* Strings

NumStr(n) == <<"0", "1", "2", "3", "4", "5", "6", "7", "8", "9">>[n + 1]

\* str.split("_")[0]
SplitFirst(str) ==
  LET us == {i \in 1..Len(str) : str[i] = "_"}
  IN IF us = {} THEN str
     ELSE SubSeq(str, 1, (CHOOSE i \in us : \A j \in us : i <= j) - 1)

\* Identifiers a caller may hand to Unsub: every identifier the registries of
\* the store can mint, one whose prefix names a member of Object.prototype
\* and one with two underscores.
Ids ==
  {k \o <<"_", NumStr(n)>> : k \in {KeyA, GlobalPrefix}, n \in 0..(MaxSubs - 1)}
    \cup {k \o <<"_", NumStr(0)>> : k \in {ProtoKey, KeyAB}}

----------------------------------------------------------------------------
\* common.Subber

NoSubs == [id \in {} |-> NoFn]

SubberNew(prefix) == [prefix |-> prefix, idx |-> 0, subs |-> NoSubs]

SubberMint(sb) == sb.prefix \o <<"_", NumStr(sb.idx)>>

\* Sub(fn): mint an identifier, register fn under it.
SubberSub(sb, fn) ==
  [sb EXCEPT !.idx = @ + 1, !.subs = (SubberMint(sb) :> fn) @@ @]

\* Sub(fn, key): register fn under the identifier given.
SubberSubAs(sb, fn, id) == [sb EXCEPT !.subs = (id :> fn) @@ @]

SubberHas(sb, id) == id \in DOMAIN sb.subs

SubberUnsub(sb, id) ==
  [sb EXCEPT !.subs = [i \in (DOMAIN @) \ {id} |-> @[i]]]

----------------------------------------------------------------------------
\* entry.Entry

EntryNew(key) == [key |-> key, value |-> Null, s |-> SubberNew(key)]

EntryGet(e) == e.value

\* One invocation of a listener: the registration it has in the entry, and
\* the arguments it receives.
Call(e, id, val) == [sk |-> id, fn |-> e.s.subs[id], val |-> val, key |-> e.key]

\* Every listener of the entry, once, with (val, key).
Notify(e, val) == SetToBag({Call(e, id, val) : id \in DOMAIN e.s.subs})

EntryPut(e, val) == [e EXCEPT !.value = val]

EntrySub(e, fn) == [e EXCEPT !.s = SubberSub(@, fn)]

EntrySubAs(e, fn, id) == [e EXCEPT !.s = SubberSubAs(@, fn, id)]

EntryUnsub(e, id) == [e EXCEPT !.s = SubberUnsub(@, id)]

EntryClose(e) == [e EXCEPT !.s.subs = NoSubs]

----------------------------------------------------------------------------
\* PubSub

\* this.m[key] is an Entry of the store.
HasEntry(mm, key) == key \in DOMAIN mm

\* !!this.m[key]: an Entry of the store, or a member of Object.prototype.
Truthy(mm, key) == HasEntry(mm, key) \/ key \in ProtoKeys

RECURSIVE ForwardAll(_, _, _)
\* this.s.ForEach((sKey, fn) => e.Sub(fn, sKey))
ForwardAll(e, ss, todo) ==
  IF todo = {} THEN e
  ELSE LET sk == CHOOSE x \in todo : TRUE
       IN ForwardAll(EntrySubAs(e, ss.subs[sk], sk), ss, todo \ {sk})

\* createEntry that forwards no global listener into the new Entry.
createEntryBare(mm, ss, key) ==
  IF Truthy(mm, key) THEN mm
  ELSE (key :> EntryNew(key)) @@ mm

\* No operation is in the middle of invoking listeners.
Idle ==
  [name |-> "Idle", key |-> <<>>, val |-> Null, todo |-> NoSubs,
   start |-> NoSubs, rest |-> {}, active |-> FALSE]

\* The map after createEntry(key).
createEntry(mm, ss, key) ==
  IF Truthy(mm, key) THEN mm
  ELSE (key :> ForwardAll(EntryNew(key), ss, DOMAIN ss.subs)) @@ mm

Init ==
  /\ m = [k \in {} |-> EntryNew(k)]
  /\ s = SubberNew(GlobalPrefix)
  /\ nfn = 0
  /\ op = [name |-> "New", arg |-> <<>>, val |-> Null, fn |-> NoFn]
  /\ ret = RetVoid
  /\ calls = EmptyBag
  /\ err = ""
  /\ issued = {}
  /\ run = Idle
  /\ inner = <<>>

\* What an operation leaves behind: the map, the global registry, the value
\* returned, the listener invocations made and the console.error text.
Out(mm, ss, r, c, e) == [m |-> mm, s |-> ss, ret |-> r, calls |-> c, err |-> e]

\* A call of a method on a member of Object.prototype raises before anything
\* is changed.
Raise(mm, ss) == Out(mm, ss, TypeError, EmptyBag, "")

RECURSIVE forEachSub(_, _, _, _)
\* this.forEach((key, e) => e.Sub(fn, sk)) over Object.keys(this.m)
forEachSub(mm, fn, sk, todo) ==
  IF todo = {} THEN mm
  ELSE LET k == CHOOSE x \in todo : TRUE
       IN forEachSub([mm EXCEPT ![k] = EntrySubAs(@, fn, sk)], fn, sk, todo \ {k})

RECURSIVE forEachUnsub(_, _, _)
\* this.forEach((_, e) => e.Unsub(key)) over Object.keys(this.m)
forEachUnsub(mm, id, todo) ==
  IF todo = {} THEN mm
  ELSE LET k == CHOOSE x \in todo : TRUE
       IN forEachUnsub([mm EXCEPT ![k] = EntryUnsub(@, id)], id, todo \ {k})

sub(mm, ss, fn) ==
  LET sk == SubberMint(ss)
  IN Out(forEachSub(mm, fn, sk, DOMAIN mm), SubberSub(ss, fn), sk, EmptyBag, "")

\* unsub that forgets the entries: the id leaves the global registry only.
unsubGlobalOnly(mm, ss, id) ==
  IF ~SubberHas(ss, id)
  THEN Out(mm, ss, RetFalse, EmptyBag, "Could not unsub key!")
  ELSE Out(mm, ss, RetTrue, EmptyBag, "")

\* unsub without the early return: the entries are visited also when the id
\* is not in the global registry.
unsubNoEarlyReturn(mm, ss, id) ==
  Out(forEachUnsub(mm, id, DOMAIN mm), SubberUnsub(ss, id),
      IF SubberHas(ss, id) THEN RetTrue ELSE RetFalse, EmptyBag,
      IF SubberHas(ss, id) THEN "" ELSE "Could not unsub key!")

unsub(mm, ss, id) ==
  IF ~SubberHas(ss, id)
  THEN Out(mm, ss, RetFalse, EmptyBag, "Could not unsub key!")
  ELSE Out(forEachUnsub(mm, id, DOMAIN mm), SubberUnsub(ss, id), RetTrue, EmptyBag, "")

Get(mm, ss, key) ==
  IF ~Truthy(mm, key) THEN Out(mm, ss, RetNull, EmptyBag, "")
  ELSE IF ~HasEntry(mm, key) THEN Raise(mm, ss)
  ELSE Out(mm, ss, <<EntryGet(mm[key])>>, EmptyBag, "")

\* Put without the test for the reserved key.
PutAnyKey(mm, ss, key, val) ==
  LET m1 == createEntry(mm, ss, key)
  IN IF ~HasEntry(m1, key) THEN Raise(m1, ss)
     ELSE LET e == EntryPut(m1[key], val)
          IN Out([m1 EXCEPT ![key] = e], ss, RetVoid, Notify(e, val), "")

\* Put that delivers to the listeners of every Entry.
PutBroadcast(mm, ss, key, val) ==
  IF key = Star THEN Out(mm, ss, RetVoid, EmptyBag, "invalid key")
  ELSE LET m1 == createEntry(mm, ss, key)
       IN IF ~HasEntry(m1, key) THEN Raise(m1, ss)
          ELSE LET m2 == [m1 EXCEPT ![key] = EntryPut(@, val)]
               IN Out(m2, ss, RetVoid,
                      SetToBag(UNION {BagToSet(Notify(m2[k], val)) : k \in DOMAIN m2}), "")

Put(mm, ss, key, val) ==
  IF key = Star THEN Out(mm, ss, RetVoid, EmptyBag, "invalid key")
  ELSE LET m1 == createEntry(mm, ss, key)
       IN IF ~HasEntry(m1, key) THEN Raise(m1, ss)
          ELSE LET e == EntryPut(m1[key], val)
               IN Out([m1 EXCEPT ![key] = e], ss, RetVoid, Notify(e, val), "")

\* Delete that notifies the listeners and reuses the Entry: the value is
\* unset, the Entry and its listeners stay.
DeleteUnsetsValue(mm, ss, key) ==
  IF ~Truthy(mm, key) THEN Out(mm, ss, RetFalse, EmptyBag, "")
  ELSE IF ~HasEntry(mm, key) THEN Raise(mm, ss)
  ELSE Out([mm EXCEPT ![key].value = Null], ss, RetTrue,
           Notify(mm[key], Null), "")

\* Delete that closes the entry and leaves it in the map.
DeleteKeepsEntry(mm, ss, key) ==
  IF ~Truthy(mm, key) THEN Out(mm, ss, RetFalse, EmptyBag, "")
  ELSE IF ~HasEntry(mm, key) THEN Raise(mm, ss)
  ELSE Out([mm EXCEPT ![key] = EntryClose(@)], ss, RetTrue,
           Notify(mm[key], Null), "")

Delete(mm, ss, key) ==
  IF ~Truthy(mm, key) THEN Out(mm, ss, RetFalse, EmptyBag, "")
  ELSE IF ~HasEntry(mm, key) THEN Raise(mm, ss)
  ELSE Out([k \in (DOMAIN mm) \ {key} |-> mm[k]], ss, RetTrue,
           Notify(mm[key], Null), "")

Sub(mm, ss, key, fn) ==
  IF key = Star THEN sub(mm, ss, fn)
  ELSE LET m1 == createEntry(mm, ss, key)
       IN IF ~HasEntry(m1, key) THEN Raise(m1, ss)
          ELSE Out([m1 EXCEPT ![key] = EntrySub(@, fn)], ss,
                   SubberMint(m1[key].s), EmptyBag, "")

Unsub(mm, ss, id) ==
  LET entryKey == SplitFirst(id)
  IN IF entryKey = GlobalPrefix THEN unsub(mm, ss, id)
     ELSE IF ~Truthy(mm, entryKey) THEN Out(mm, ss, RetFalse, EmptyBag, "")
     ELSE IF ~HasEntry(mm, entryKey) THEN Raise(mm, ss)
     ELSE Out([mm EXCEPT ![entryKey] = EntryUnsub(@, id)], ss,
              IF SubberHas(mm[entryKey].s, id) THEN RetTrue ELSE RetFalse,
              EmptyBag, "")

RECURSIVE CloseAll(_, _)
\* for (var k in this.m) { this.m[k].Close(); delete this.m[k] }
CloseAll(mm, todo) ==
  IF todo = {} THEN EmptyBag
  ELSE LET k == CHOOSE x \in todo : TRUE
       IN Notify(mm[k], Null) (+) CloseAll(mm, todo \ {k})

Close(mm, ss) ==
  Out([k \in {} |-> EntryNew(k)], ss, RetVoid, CloseAll(mm, DOMAIN mm), "")

----------------------------------------------------------------------------
\* The caller: one operation at a time, each run to completion.

Op(name, arg, val, fn) == [name |-> name, arg |-> arg, val |-> val, fn |-> fn]

Apply(o, out) ==
  /\ op' = o
  /\ m' = out.m
  /\ s' = out.s
  /\ ret' = out.ret
  /\ calls' = out.calls
  /\ err' = out.err

CallGet(key) ==
  /\ Apply(Op("Get", key, Null, NoFn), Get(m, s, key))
  /\ UNCHANGED nfn

CallPut(key, val) ==
  /\ Apply(Op("Put", key, val, NoFn), Put(m, s, key, val))
  /\ UNCHANGED nfn

CallDelete(key) ==
  /\ Apply(Op("Delete", key, Null, NoFn), Delete(m, s, key))
  /\ UNCHANGED nfn

CallSub(key) ==
  /\ nfn < MaxSubs
  /\ nfn' = nfn + 1
  /\ Apply(Op("Sub", key, Null, nfn + 1), Sub(m, s, key, nfn + 1))

CallUnsub(id) ==
  /\ Apply(Op("Unsub", id, Null, NoFn), Unsub(m, s, id))
  /\ UNCHANGED nfn

CallClose ==
  /\ Apply(Op("Close", <<>>, Null, NoFn), Close(m, s))
  /\ UNCHANGED nfn

\* The operations alone, each run to completion by listeners that do not
\* call the store: no history is kept.
Plain == UNCHANGED <<issued, run, inner>>

Next ==
  \/ \E k \in Keys : CallGet(k) /\ Plain
  \/ \E k \in Keys, v \in Vals : CallPut(k, v) /\ Plain
  \/ \E k \in Keys : CallDelete(k) /\ Plain
  \/ \E k \in Keys : CallSub(k) /\ Plain
  \/ \E id \in Ids : CallUnsub(id) /\ Plain
  \/ CallClose /\ Plain

Spec == Init /\ [][Next]_vars

----------------------------------------------------------------------------
\* The same operations with the history of the identifiers Sub returned.

\* The subscriptions ends of iss are over.
Ended(iss, ends) ==
  {IF r \in ends THEN [r EXCEPT !.live = FALSE] ELSE r : r \in iss}

\* The history after operation o has returned r: Sub adds the identifier it
\* returned for its key; a successful Unsub ends the subscriptions under its
\* identifier, a successful Delete those of its key, Close those of every key.
IssuedAfter(iss, o, r) ==
  IF o.name = "Sub" /\ r # TypeError
    THEN iss \cup {[key |-> o.arg, id |-> r, live |-> TRUE]}
  ELSE IF o.name = "Unsub" /\ r = RetTrue
    THEN Ended(iss, {x \in iss : x.id = o.arg})
  ELSE IF o.name = "Delete" /\ r = RetTrue
    THEN Ended(iss, {x \in iss : x.key = o.arg})
  ELSE IF o.name = "Close"
    THEN Ended(iss, {x \in iss : x.key # Star})
  ELSE iss

Track ==
  /\ issued' = IssuedAfter(issued, op', ret')
  /\ UNCHANGED <<run, inner>>

NextIds ==
  \/ \E k \in Keys, v \in Vals : CallPut(k, v) /\ Track
  \/ \E k \in Keys : CallDelete(k) /\ Track
  \/ \E k \in Keys : CallSub(k) /\ Track
  \/ \E id \in Ids : CallUnsub(id) /\ Track
  \/ CallClose /\ Track

SpecIds == Init /\ [][NextIds]_vars

----------------------------------------------------------------------------
\* Put, Delete and Close one listener invocation at a time.  A listener is
\* called synchronously and may itself call Get, Sub or Put on the key it is
\* notified for before it returns; the listeners such a nested Put invokes
\* return without calling the store.

\* Operation name on key is invoking the listeners subs with val; rest are
\* the keys Close has still to visit.
Running(name, key, val, subs, rest) ==
  [name |-> name, key |-> key, val |-> val, todo |-> subs, start |-> subs,
   rest |-> rest, active |-> TRUE]

Returned(r) == [r EXCEPT !.active = FALSE]

\* A call made from inside a callback, and what it returned.
Inner(name, key, val, fn, r) ==
  [name |-> name, key |-> key, val |-> val, fn |-> fn, ret |-> r]

\* The invocation of the registration id of the running operation.
Invoke(id) ==
  [sk |-> id, fn |-> run.todo[id], val |-> run.val, key |-> run.key]

\* The registrations still to invoke once id has been.
Left(id) == [i \in (DOMAIN run.todo) \ {id} |-> run.todo[i]]

\* A Sub between operations.
IdleSub(key) ==
  /\ ~run.active
  /\ CallSub(key)
  /\ run' = Idle
  /\ inner' = <<>>
  /\ UNCHANGED issued

\* Put(key, val) up to its first listener: the Entry is there and holds val.
BeginPut(key, val) ==
  LET out == Put(m, s, key, val)
      delivers == key # Star /\ HasEntry(out.m, key)
  IN /\ ~run.active
     /\ op' = Op("Put", key, val, NoFn)
     /\ m' = out.m
     /\ s' = out.s
     /\ ret' = out.ret
     /\ err' = out.err
     /\ calls' = EmptyBag
     /\ inner' = <<>>
     /\ run' = IF delivers
                THEN Running("Put", key, val, out.m[key].s.subs, {})
                ELSE Idle
     /\ UNCHANGED <<nfn, issued>>

\* Delete that removes the Entry from the map before it closes it.
BeginDeleteRemovesFirst(key) ==
  /\ ~run.active
  /\ inner' = <<>>
  /\ UNCHANGED <<nfn, issued>>
  /\ IF HasEntry(m, key)
     THEN /\ op' = Op("Delete", key, Null, NoFn)
          /\ m' = [k \in (DOMAIN m) \ {key} |-> m[k]]
          /\ run' = Running("Delete", key, Null, m[key].s.subs, {})
          /\ ret' = RetVoid
          /\ calls' = EmptyBag
          /\ err' = ""
          /\ UNCHANGED s
     ELSE /\ Apply(Op("Delete", key, Null, NoFn), Delete(m, s, key))
          /\ run' = Idle

\* Delete(key) up to its first listener: entry.Close() starts with the Entry
\* still in the map.
BeginDelete(key) ==
  /\ ~run.active
  /\ inner' = <<>>
  /\ UNCHANGED <<nfn, issued>>
  /\ IF HasEntry(m, key)
     THEN /\ op' = Op("Delete", key, Null, NoFn)
          /\ run' = Running("Delete", key, Null, m[key].s.subs, {})
          /\ ret' = RetVoid
          /\ calls' = EmptyBag
          /\ err' = ""
          /\ UNCHANGED <<m, s>>
     ELSE /\ Apply(Op("Delete", key, Null, NoFn), Delete(m, s, key))
          /\ run' = Idle

\* Close() up to the first listener of the first key of the for-in loop.
BeginClose ==
  /\ ~run.active
  /\ inner' = <<>>
  /\ UNCHANGED <<nfn, issued>>
  /\ IF DOMAIN m # {}
     THEN /\ op' = Op("Close", <<>>, Null, NoFn)
          /\ \E k \in DOMAIN m :
               run' = Running("Close", k, Null, m[k].s.subs, (DOMAIN m) \ {k})
          /\ ret' = RetVoid
          /\ calls' = EmptyBag
          /\ err' = ""
          /\ UNCHANGED <<m, s>>
     ELSE /\ Apply(Op("Close", <<>>, Null, NoFn), Close(m, s))
          /\ run' = Idle

\* The listener registered under id is invoked and returns.
Deliver(id) ==
  /\ run.active
  /\ id \in DOMAIN run.todo
  /\ calls' = calls (+) SetToBag({Invoke(id)})
  /\ run' = [run EXCEPT !.todo = Left(id)]
  /\ UNCHANGED <<m, s, nfn, op, ret, err, issued, inner>>

\* The listener calls Get(key) before it returns.
DeliverGet(id) ==
  /\ run.active
  /\ Len(inner) < MaxInner
  /\ id \in DOMAIN run.todo
  /\ calls' = calls (+) SetToBag({Invoke(id)})
  /\ run' = [run EXCEPT !.todo = Left(id)]
  /\ inner' = Append(inner, Inner("Get", run.key, Null, NoFn,
                                   Get(m, s, run.key).ret))
  /\ UNCHANGED <<m, s, nfn, op, ret, err, issued>>

\* The listener calls Sub(key, g) before it returns.  The iteration that
\* invoked it visits the new registration in the same pass (seen) or not.
DeliverSub(id, seen) ==
  LET g == nfn + 1
      out == Sub(m, s, run.key, g)
      visits == seen /\ out.ret # TypeError /\ out.ret \notin DOMAIN run.start
  IN /\ run.active
     /\ id \in DOMAIN run.todo
     /\ nfn < MaxSubs
     /\ Len(inner) < MaxInner
     /\ nfn' = g
     /\ m' = out.m
     /\ s' = out.s
     /\ calls' = calls (+) SetToBag({Invoke(id)})
     /\ run' = [run EXCEPT !.todo = IF visits THEN (out.ret :> g) @@ Left(id)
                                               ELSE Left(id)]
     /\ inner' = Append(inner, Inner("Sub", run.key, Null, g, out.ret))
     /\ UNCHANGED <<op, ret, err, issued>>

\* The listener calls Put(key, val) before it returns.
DeliverPut(id, val) ==
  LET out == Put(m, s, run.key, val)
  IN /\ run.active
     /\ Len(inner) < MaxInner
     /\ id \in DOMAIN run.todo
     /\ m' = out.m
     /\ s' = out.s
     /\ calls' = calls (+) SetToBag({Invoke(id)}) (+) out.calls
     /\ run' = [run EXCEPT !.todo = Left(id)]
     /\ inner' = Append(inner, Inner("Put", run.key, val, NoFn, out.ret))
     /\ UNCHANGED <<nfn, op, ret, err, issued>>

\* The last listener has returned.  Put returns; Delete removes the key and
\* returns true; Close removes the key and goes on with the next one.
End ==
  /\ run.active
  /\ run.todo = NoSubs
  /\ UNCHANGED <<s, nfn, op, calls, err, issued, inner>>
  /\ \/ /\ run.name = "Put"
        /\ run' = Returned(run)
        /\ UNCHANGED <<m, ret>>
     \/ /\ run.name = "Delete"
        /\ m' = Delete(m, s, run.key).m
        /\ ret' = RetTrue
        /\ run' = Returned(run)
     \/ /\ run.name = "Close"
        /\ m' = [k \in (DOMAIN m) \ {run.key} |-> m[k]]
        /\ UNCHANGED ret
        /\ LET left == run.rest \cap DOMAIN m'
           IN IF left = {} THEN run' = Returned(run)
              ELSE \E k \in left :
                     run' = Running("Close", k, Null, m[k].s.subs, left \ {k})

NextR ==
  \/ \E k \in Keys : IdleSub(k)
  \/ \E k \in Keys, v \in Vals : BeginPut(k, v)
  \/ \E k \in Keys : BeginDelete(k)
  \/ BeginClose
  \/ \E id \in DOMAIN run.todo : Deliver(id)
  \/ \E id \in DOMAIN run.todo : DeliverGet(id)
  \/ \E id \in DOMAIN run.todo, seen \in BOOLEAN : DeliverSub(id, seen)
  \/ \E id \in DOMAIN run.todo, v \in Vals : DeliverPut(id, v)
  \/ End

SpecR == Init /\ [][NextR]_vars

----------------------------------------------------------------------------
\* Views of the current state used by the properties.

entries == DOMAIN m
globalSubs == s.subs
localSubs(k) == m[k].s.subs

\* What Get(k) returns on the store (mm, ss), and on the current one.
GetIn(mm, ss, k) == Get(mm, ss, k).ret
GetNow(k) == GetIn(m, s, k)

\* The registrations invoked by the last operation, as a set.
Called == BagToSet(calls)

\* C1: every listener registered in globalSubs under sk is registered under
\* the same sk, with the same fn, in the localSubs of every Entry.
FanOutConsistency ==
  \A sk \in DOMAIN globalSubs : \A k \in entries :
    /\ sk \in DOMAIN localSubs(k)
    /\ localSubs(k)[sk] = globalSubs[sk]

\* C2: Get agrees with a reference last-value map.  The reference map
\* starts empty; Put(k, v) sets k to v and changes no other key, Delete(k)
\* clears k and changes no other key, Close clears every key, and Get, Sub
\* and Unsub change nothing.  Get(k) returns the reference value, or null.
GetAgreesWithReference ==
  [][/\ (op.name = "New" => \A k \in Keys : GetNow(k) = RetNull)
     /\ (op'.name = "Put" =>
           /\ GetIn(m', s', op'.arg) = <<op'.val>>
           /\ \A j \in Keys \ {op'.arg} : GetIn(m', s', j) = GetNow(j))
     /\ (op'.name = "Delete" =>
           /\ GetIn(m', s', op'.arg) = RetNull
           /\ \A j \in Keys \ {op'.arg} : GetIn(m', s', j) = GetNow(j))
     /\ (op'.name = "Close" => \A k \in Keys : GetIn(m', s', k) = RetNull)
     /\ (op'.name \in {"Get", "Sub", "Unsub"} =>
           \A k \in Keys : GetIn(m', s', k) = GetNow(k))
     /\ (op'.name = "Get" => ret' = GetNow(op'.arg))]_vars

\* C3: "*" is never a key of entries; Put("*", v) creates no Entry, invokes
\* no listener and leaves entries and globalSubs unchanged, and Get("*") is
\* null after it; Sub("*", fn) creates no Entry.
WildcardReserved ==
  /\ [](Star \notin entries)
  /\ [][/\ (op'.name = "Put" /\ op'.arg = Star =>
              /\ m' = m
              /\ s' = s
              /\ calls' = EmptyBag
              /\ GetIn(m', s', Star) = RetNull)
        /\ (op'.name = "Sub" /\ op'.arg = Star => entries' = entries)]_vars

\* Put("*", v) was called on a store that has entries with listeners and a
\* global listener.
WildcardWitness ==
  /\ op.name = "Put"
  /\ op.arg = Star
  /\ DOMAIN globalSubs # {}
  /\ \E k \in entries : DOMAIN localSubs(k) # DOMAIN globalSubs

\* C4: when k has an Entry, Delete(k) invokes every registration in the
\* Entry's localSubs (subscribed to k or forwarded from globalSubs) exactly
\* once with (null, k) and nothing else, returns true, and afterwards k is
\* not in entries and Get(k) is null.
DeleteCloses ==
  [][(op'.name = "Delete" /\ op'.arg \in entries) =>
       LET k == op'.arg
       IN /\ \A sk \in DOMAIN localSubs(k) :
               CopiesIn([sk |-> sk, fn |-> localSubs(k)[sk], val |-> Null, key |-> k],
                        calls') = 1
          /\ BagCardinality(calls') = Cardinality(DOMAIN localSubs(k))
          /\ ret' = RetTrue
          /\ k \notin entries'
          /\ GetIn(m', s', k) = RetNull]_vars

\* Delete(k) has closed an Entry that held a listener subscribed to k and a
\* forwarded global listener.
DeleteClosesWitness ==
  /\ op.name = "Delete"
  /\ ret = RetTrue
  /\ \E c \in Called : c.sk \in DOMAIN globalSubs
  /\ \E c \in Called : c.sk \notin DOMAIN globalSubs

\* C5: while a listener fn is registered in globalSubs under sk, every
\* Put(k, v) with k # "*" invokes it exactly once with (v, k).
GlobalFanOut ==
  [][(op'.name = "Put" /\ op'.arg # Star) =>
       \A sk \in DOMAIN globalSubs :
         CopiesIn([sk |-> sk, fn |-> globalSubs[sk], val |-> op'.val, key |-> op'.arg],
                  calls') = 1]_vars

\* The listener fn is in some registry of the store (mm, ss), and of the
\* current one.
RegisteredIn(mm, ss, fn) ==
  \/ \E sk \in DOMAIN ss.subs : ss.subs[sk] = fn
  \/ \E k \in DOMAIN mm : \E sk \in DOMAIN mm[k].s.subs : mm[k].s.subs[sk] = fn
Registered(fn) == RegisteredIn(m, s, fn)

\* C6: when Unsub(id) returns true for an id registered in globalSubs, the
\* id is afterwards in neither globalSubs nor the localSubs of any Entry,
\* its listener is in no registry, no listener is invoked and entries and
\* the stored values are as before.  A listener that is in no registry stays
\* in none, and an operation invokes only listeners that were registered
\* when it was called: the removed listener is never invoked again.
GlobalUnsubEverywhere ==
  [][/\ (/\ op'.name = "Unsub"
         /\ op'.arg \in DOMAIN globalSubs
         /\ ret' = RetTrue) =>
           /\ op'.arg \notin DOMAIN globalSubs'
           /\ \A k \in DOMAIN m' : op'.arg \notin DOMAIN m'[k].s.subs
           /\ ~RegisteredIn(m', s', globalSubs[op'.arg])
           /\ calls' = EmptyBag
           /\ entries' = entries
           /\ \A k \in Keys : GetIn(m', s', k) = GetNow(k)
     /\ \A fn \in 1..nfn : ~Registered(fn) => ~RegisteredIn(m', s', fn)
     /\ \A c \in Called' : Registered(c.fn)]_vars

\* A global listener forwarded into two entries has been unsubscribed, and
\* a later Put on one of them invoked another listener.
GlobalUnsubWitness ==
  /\ op.name = "Put"
  /\ Called # {}
  /\ \E fn \in 1..nfn : ~Registered(fn)
  /\ s.idx > Cardinality(DOMAIN globalSubs)
  /\ Cardinality(entries) = 2

\* C7: Unsub(id), called with the id that Sub(k, fn) or Sub("*", fn) has
\* just returned, returns true and leaves the listener fn in no registry.
UnsubTearsDown ==
  [][(/\ op.name = "Sub"
      /\ ret # TypeError
      /\ op'.name = "Unsub"
      /\ op'.arg = ret) =>
        /\ ret' = RetTrue
        /\ ~RegisteredIn(m', s', op.fn)]_vars

\* C8: Unsub(id), called with the id that Sub(k, fn) with k # "*" has just
\* returned, removes that one registration from the Entry of k and changes
\* nothing else: no other listener of k, no other Entry, not globalSubs and
\* no stored value.
PerEntryUnsubLocal ==
  [][(/\ op.name = "Sub"
      /\ op.arg # Star
      /\ ret # TypeError
      /\ op'.name = "Unsub"
      /\ op'.arg = ret) =>
        /\ s' = s
        /\ m' = [m EXCEPT ![op.arg] = EntryUnsub(@, ret)]
        /\ ret \notin DOMAIN m'[op.arg].s.subs]_vars

\* C9: for a key k without Entry, Get(k) returns null, Delete(k) returns
\* false and Unsub of an id with prefix k returns false; none raises,
\* invokes a listener, creates an Entry or changes entries or globalSubs.
UnknownKeyNegative ==
  [][/\ (op'.name = "Get" /\ op'.arg \notin entries =>
           ret' = RetNull /\ m' = m /\ s' = s /\ calls' = EmptyBag)
     /\ (op'.name = "Delete" /\ op'.arg \notin entries =>
           ret' = RetFalse /\ m' = m /\ s' = s /\ calls' = EmptyBag)
     /\ (op'.name = "Unsub" /\ SplitFirst(op'.arg) \notin entries =>
           ret' = RetFalse /\ m' = m /\ s' = s /\ calls' = EmptyBag)]_vars

\* C10: Unsub(id) with an id of prefix "global" that is not registered in
\* globalSubs returns false and changes neither globalSubs nor entries nor
\* the localSubs of any Entry.
UnknownGlobalId ==
  [][(/\ op'.name = "Unsub"
      /\ SplitFirst(op'.arg) = GlobalPrefix
      /\ op'.arg \notin DOMAIN globalSubs) =>
        /\ ret' = RetFalse
        /\ s' = s
        /\ m' = m
        /\ calls' = EmptyBag]_vars

\* Unsub of an unregistered global id was refused while an Entry holds a
\* registration under that very id.
UnknownGlobalIdWitness ==
  /\ op.name = "Unsub"
  /\ SplitFirst(op.arg) = GlobalPrefix
  /\ ret = RetFalse
  /\ err = "Could not unsub key!"
  /\ \E k \in entries : op.arg \in DOMAIN localSubs(k)

\* The listeners registered in a registry.
FnsOf(subs) == {subs[sk] : sk \in DOMAIN subs}

\* C11: Delete(k) that returns true removes the Entry of k, and every
\* listener that was subscribed to k alone is afterwards in no registry.  A
\* Put(k, v) or Sub(k, fn) on a key without Entry builds a new Entry whose
\* localSubs holds the current global listeners (and, for Sub, fn) and no
\* other listener.  A listener that is in no registry stays in none, and an
\* operation invokes only listeners registered when it is called: after its
\* closed sentinel such a listener is never invoked again.
DeletedEntryNotReused ==
  [][/\ (op'.name = "Delete" /\ ret' = RetTrue) =>
           /\ op'.arg \notin DOMAIN m'
           /\ \A fn \in FnsOf(localSubs(op'.arg)) \ FnsOf(globalSubs) :
                ~RegisteredIn(m', s', fn)
     /\ (/\ op'.name \in {"Put", "Sub"}
         /\ op'.arg \notin entries
         /\ op'.arg \in DOMAIN m') =>
           /\ FnsOf(m'[op'.arg].s.subs) \subseteq FnsOf(globalSubs) \cup {op'.fn}
           /\ m'[op'.arg].s.idx = (IF op'.name = "Sub" THEN 1 ELSE 0)
     /\ \A fn \in 1..nfn : ~Registered(fn) => ~RegisteredIn(m', s', fn)
     /\ \A c \in Called' : Registered(c.fn)]_vars

\* Delete("a") has delivered the closed sentinel to a listener subscribed to
\* "a" alone and to a forwarded global listener; the first is now in no
\* registry, the second still is.
DeletedEntryWitness ==
  /\ op.name = "Delete"
  /\ op.arg = KeyA
  /\ ret = RetTrue
  /\ KeyA \notin entries
  /\ \E c \in Called : ~Registered(c.fn)
  /\ \E c \in Called : Registered(c.fn)

\* C12: Close() invokes every listener of every Entry exactly once per Entry
\* with (null, key) and removes every Entry: afterwards entries is empty and
\* Get(k) is null for every k.
CloseEmptiesStore ==
  [][op'.name = "Close" =>
       /\ \A k \in entries : \A sk \in DOMAIN localSubs(k) :
            CopiesIn([sk |-> sk, fn |-> localSubs(k)[sk], val |-> Null, key |-> k],
                     calls') = 1
       /\ \A c \in Called' : c.key \in entries /\ c.val = Null
       /\ DOMAIN m' = {}
       /\ \A k \in Keys : GetIn(m', s', k) = RetNull]_vars

\* C13: Close() leaves globalSubs as it was; a Put(k, v) with k # "*" called
\* next invokes every global listener with (v, k), and Unsub of a global id
\* called next returns true.
CloseKeepsGlobalSubs ==
  [][/\ (op'.name = "Close" => s' = s)
     /\ (op.name = "Close" /\ op'.name = "Put" /\ op'.arg # Star) =>
           \A sk \in DOMAIN globalSubs :
             CopiesIn([sk |-> sk, fn |-> globalSubs[sk], val |-> op'.val,
                       key |-> op'.arg], calls') = 1
     /\ (op.name = "Close" /\ op'.name = "Unsub" /\ op'.arg \in DOMAIN globalSubs) =>
           ret' = RetTrue]_vars

\* C14: Put(k, v) with k # "*" invokes every registration of the Entry of k
\* (those it held, or the global listeners forwarded into it when the Put
\* creates it) exactly once with (v, k), invokes nothing else, and changes
\* no other Entry.
PutDeliversOnce ==
  [][(op'.name = "Put" /\ op'.arg # Star) =>
       LET k == op'.arg
           regs == IF k \in entries THEN localSubs(k)
                   ELSE IF k \in DOMAIN m' THEN globalSubs
                   ELSE NoSubs
       IN /\ \A sk \in DOMAIN regs :
               CopiesIn([sk |-> sk, fn |-> regs[sk], val |-> op'.val, key |-> k],
                        calls') = 1
          /\ BagCardinality(calls') = Cardinality(DOMAIN regs)
          /\ \A j \in entries \ {k} : j \in DOMAIN m' /\ m'[j] = m[j]
          /\ DOMAIN m' \subseteq entries \cup {k}]_vars

\* Put on one key delivered to its listener and to a global listener while
\* another Entry holds a listener of its own.
PutDeliversWitness ==
  /\ op.name = "Put"
  /\ Cardinality(Called) = 2
  /\ \E c \in Called : c.sk \in DOMAIN globalSubs
  /\ \E c \in Called : c.sk \notin DOMAIN globalSubs
  /\ \E k \in entries \ {op.arg} : ~(FnsOf(localSubs(k)) \subseteq FnsOf(globalSubs))

\* C18: after Unsub(id), a second Unsub(id) returns false and leaves
\* entries, globalSubs and every localSubs as the first left them.
UnsubIdempotent ==
  op.name = "Unsub" =>
    LET again == Unsub(m, s, op.arg)
    IN again.ret = RetFalse /\ again.m = m /\ again.s = s

\* C15: Sub(k, fn) never returns an identifier that an earlier Sub on the
\* same key has returned, also when the Entry of k was deleted and created
\* again in between.
SubIdsNeverReused ==
  [][(op'.name = "Sub" /\ ret' # TypeError) =>
       \A r \in issued : r.key = op'.arg => r.id # ret']_vars

\* The identifiers of the live subscriptions made by Sub(k, fn).
LiveIds(k) == {r.id : r \in {x \in issued : x.key = k /\ x.live}}

\* C17: the identifiers in the localSubs of the Entry of k are exactly the
\* identifiers in globalSubs and the identifiers of the live subscriptions
\* made by Sub(k, fn) on that Entry.
NoStaleRegistrations ==
  \A k \in entries : DOMAIN localSubs(k) = DOMAIN globalSubs \cup LiveIds(k)

\* An Entry holds a live subscription of its own and a forwarded global
\* one, after another global subscription was removed by Unsub.
NoStaleWitness ==
  /\ op.name = "Unsub"
  /\ ret = RetTrue
  /\ SplitFirst(op.arg) = GlobalPrefix
  /\ DOMAIN globalSubs # {}
  /\ \E k \in entries : LiveIds(k) \ DOMAIN globalSubs # {}

\* C16: Delete notifies before it removes.  While Delete(k) is invoking
\* listeners, k is in entries; once it has returned true, k is not, and
\* every listener k had when Delete was called has been invoked exactly once
\* with (null, k).
DeleteNotifiesBeforeRemoves ==
  (op.name = "Delete" /\ run.name = "Delete") =>
    /\ run.active => run.key \in entries
    /\ ~run.active =>
         /\ ret = RetTrue
         /\ run.key \notin entries
         /\ \A id \in DOMAIN run.start :
              CopiesIn([sk |-> id, fn |-> run.start[id], val |-> Null,
                        key |-> run.key], calls) = 1

\* Delete(k) has returned after it invoked a listener subscribed to k and a
\* forwarded global listener.
DeleteNotifiesWitness ==
  /\ op.name = "Delete"
  /\ run.name = "Delete"
  /\ ~run.active
  /\ \E c, d \in Called :
       /\ c.val = Null
       /\ d.val = Null
       /\ c.sk \in DOMAIN globalSubs
       /\ d.sk \notin DOMAIN globalSubs

\* C19: a listener invoked with (v, k) by Put(k, v) that calls Get(k) from
\* inside the callback obtains v.
PutStoresBeforeNotifies ==
  op.name = "Put" =>
    \A i \in DOMAIN inner :
      inner[i].name = "Get" => inner[i].ret = <<op.val>>

\* The last value a listener Put for key from inside its callback.
LastInnerPut(key) ==
  LET puts == {i \in DOMAIN inner : inner[i].name = "Put" /\ inner[i].key = key}
  IN inner[CHOOSE i \in puts : \A j \in puts : j <= i].val

\* C20: when Delete(k) or Close() has returned, every registration a
\* listener made with Sub(k, g) from inside the delivery of (null, k) is
\* registered in the Entry of k or was invoked once with (null, k), and
\* Get(k) is the last value a listener Put from inside that delivery.
NoSilentDrop ==
  (op.name \in {"Delete", "Close"} /\ ~run.active) =>
    \A i \in DOMAIN inner :
      LET c == inner[i]
      IN /\ (c.name = "Sub" /\ c.ret # TypeError) =>
              \/ /\ c.key \in entries
                 /\ c.ret \in DOMAIN localSubs(c.key)
                 /\ localSubs(c.key)[c.ret] = c.fn
              \/ CopiesIn([sk |-> c.ret, fn |-> c.fn, val |-> Null,
                           key |-> c.key], calls) = 1
         /\ c.name = "Put" => GetNow(c.key) = <<LastInnerPut(c.key)>>
====
